---- MODULE Spec2Model ----
(***************************************************************************)
(* A model of the concurrent batch-translation engine of                   *)
(* src/src/translate.py (class GeminiTranslator).                          *)
(*                                                                         *)
(* Strings are sequences of one-character strings, so that strip(),        *)
(* splitlines(), replace() and the index-marker regular expression are     *)
(* computed character by character, as the Python code computes them.      *)
(***************************************************************************)
EXTENDS Integers, Sequences, FiniteSets, TLC

VARIABLES
    api_key,        \* GeminiTranslator.api_key: "" when GEMINI_API_KEY is unset
    input,          \* the file at input_path: [readable, cues]
    batch_size,     \* translate_srt's batch_size argument
    workers,        \* translate_srt's workers argument (pool size)
    pc,             \* where the calling (main) thread is
    subs,           \* the loaded pysrt.SubRipFile: a sequence of cues
    chunks,         \* the list prepare_chunks returned
    task,           \* one future per chunk: the state of its translate_chunk call
    requests,       \* per chunk: the requests.post calls a test double saw
    sleeps,         \* per chunk: the time.sleep durations a test double saw
    translated_map, \* the dict of execute_concurrent_translation, in insertion order
    pbar,           \* the tqdm progress counter
    output,         \* what was written to output_path: one entry per save
    keep_temp,      \* run.py: the --keep-temp flag
    final_srt,      \* run.py: per file, the state of its final_srt_path
    temp_dir,       \* run.py: per file, the state of its temporary directory
    steps_run,      \* run.py: per file, the steps of process_video that were run
    caught,         \* run.py: per file, the step whose exception was caught
    file_i,         \* run.py: the file the loop of main is at (from 1)
    step            \* run.py: where process_video is for that file

\* the state of run.py
run_vars == <<keep_temp, final_srt, temp_dir, steps_run, caught, file_i, step>>

vars == <<api_key, input, batch_size, workers, pc, subs, chunks, task,
          requests, sleeps, translated_map, pbar, output, run_vars>>

\* translate.py is used on its own: run.py is not running
NoPipeline ==
    /\ keep_temp = FALSE
    /\ final_srt = <<>>
    /\ temp_dir = <<>>
    /\ steps_run = <<>>
    /\ caught = <<>>
    /\ file_i = 1
    /\ step = "none"

(***************************************************************************)
(* Bounds of the model.                                                    *)
(***************************************************************************)
MaxSegs == 3        \* segments in the input file of a translate_srt run
MaxBatchSize == 2   \* batch_size ranges over 1..MaxBatchSize
MaxWorkers == 2     \* workers ranges over 1..MaxWorkers
MaxTexts == 2       \* texts of a directly called translate_chunk
MaxRespLines == 3   \* lines of a response text in a direct translate_chunk call
MaxCues == 3        \* cues of a directly called prepare_chunks
MaxLiveSegs == 2    \* segments of the input file in the liveness specification
MaxMapLen == 2      \* entries of the map of a directly called reassemble_subtitles
MaxEntryLines == 2  \* lines of one entry of that map
MaxFiles == 2       \* files that one run of run.py is given
MaxPipeSegs == 1    \* segments of a cleaned subtitle file in a run of run.py

(***************************************************************************)
(* Program constants.                                                      *)
(***************************************************************************)
max_retries == 5
base_delay == 2

(***************************************************************************)
(* Strings.                                                                *)
(***************************************************************************)
NL == "\n"
Whitespace == {" ", NL, "\t"}
Digit == {"0", "1", "2", "3", "4", "5", "6", "7", "8", "9"}

Min(a, b) == IF a <= b THEN a ELSE b

RECURSIVE Pow2(_)
Pow2(n) == IF n = 0 THEN 1 ELSE 2 * Pow2(n - 1)

RECURSIVE lstrip(_)
lstrip(s) ==
    IF s = <<>> THEN s
    ELSE IF Head(s) \in Whitespace THEN lstrip(Tail(s)) ELSE s

RECURSIVE rstrip(_)
rstrip(s) ==
    IF s = <<>> THEN s
    ELSE IF s[Len(s)] \in Whitespace THEN rstrip(SubSeq(s, 1, Len(s) - 1)) ELSE s

\* str.strip()
strip(s) == rstrip(lstrip(s))

\* the position of the first line break of s, 0 when it has none
FirstBreak(s) ==
    IF \E i \in 1..Len(s) : s[i] = NL
    THEN CHOOSE i \in 1..Len(s) : s[i] = NL /\ \A j \in 1..(i - 1) : s[j] # NL
    ELSE 0

\* str.splitlines(): no entry for the empty rest after a final line break
RECURSIVE splitlines(_)
splitlines(s) ==
    IF s = <<>> THEN <<>>
    ELSE LET b == FirstBreak(s)
         IN  IF b = 0 THEN <<s>>
             ELSE <<SubSeq(s, 1, b - 1)>> \o splitlines(SubSeq(s, b + 1, Len(s)))

\* str.replace("\n", " ")
replace_newline(s) == [i \in 1..Len(s) |-> IF s[i] = NL THEN " " ELSE s[i]]

\* the first position >= p of line that holds no character of S
RECURSIVE Skip(_, _, _)
Skip(line, p, S) ==
    IF p <= Len(line) /\ line[p] \in S THEN Skip(line, p + 1, S) ELSE p

\* the position after an optional character c at p
Opt(line, p, c) == IF p <= Len(line) /\ line[p] = c THEN p + 1 ELSE p

\* re.sub(r"^\[?\d+\]?\s*:?\s*", "", line): the pattern needs a digit, either
\* first or right after a leading "["; everything after the digits is optional
\* and matched greedily. A line the pattern does not match is returned as is.
re_sub_index_marker(line) ==
    LET n  == Len(line)
        p0 == IF n >= 2 /\ line[1] = "[" /\ line[2] \in Digit THEN 2
              ELSE IF n >= 1 /\ line[1] \in Digit THEN 1
              ELSE 0
        p1 == Skip(line, p0, Digit)
        p2 == Opt(line, p1, "]")
        p3 == Skip(line, p2, Whitespace)
        p4 == Opt(line, p3, ":")
        p5 == Skip(line, p4, Whitespace)
    IN  IF p0 = 0 THEN line ELSE SubSeq(line, p5, n)

\* "\n".join(lines)
RECURSIVE join_lines(_)
join_lines(lines) ==
    IF lines = <<>> THEN <<>>
    ELSE IF Len(lines) = 1 THEN lines[1]
    ELSE lines[1] \o <<NL>> \o join_lines(Tail(lines))

(***************************************************************************)
(* Data: cues, chunks, responses.                                          *)
(***************************************************************************)
ERROR_MARKER == <<"[", "E", "R", "R", "O", "R", "]", " ">>
API_ERROR_MARKER == <<"[", "A", "P", "I", " ", "E", "R", "R", "O", "R", "]", " ">>
PARSE_ERROR_MARKER ==
    <<"[", "P", "A", "R", "S", "E", " ", "E", "R", "R", "O", "R", "]", " ">>

DigitChar(i) == <<"0", "1", "2", "3", "4", "5", "6", "7", "8", "9">>[(i % 10) + 1]

\* the text of the i-th cue of the sample input file; every second one holds
\* an embedded line break
SampleText(i) ==
    IF i % 2 = 1 THEN <<"s", DigitChar(i)>> ELSE <<"s", NL, DigitChar(i)>>

\* a subtitle file of n cues: index, start and end timecodes, text
SampleFile(n) ==
    [i \in 1..n |-> [index |-> i, start |-> 10 * i, end |-> 10 * i + 5,
                     text |-> SampleText(i)]]

\* the JSON body of a response, by the parts of it translate_chunk looks at
Body(is_json, has_candidates, candidates_len, has_content_parts, parts_len, has_text, text_is_str, text) ==
    [is_json |-> is_json, has_candidates |-> has_candidates,
     candidates_len |-> candidates_len, has_content_parts |-> has_content_parts,
     parts_len |-> parts_len, has_text |-> has_text,
     text_is_str |-> text_is_str, text |-> text]

NotJson == Body(FALSE, FALSE, 0, FALSE, 0, FALSE, FALSE, <<>>)
NoCandidates == Body(TRUE, FALSE, 0, FALSE, 0, FALSE, FALSE, <<>>)
EmptyCandidates == Body(TRUE, TRUE, 0, FALSE, 0, FALSE, FALSE, <<>>)
NoContentParts == Body(TRUE, TRUE, 1, FALSE, 0, FALSE, FALSE, <<>>)
EmptyParts == Body(TRUE, TRUE, 1, TRUE, 0, FALSE, FALSE, <<>>)
NoText == Body(TRUE, TRUE, 1, TRUE, 1, FALSE, FALSE, <<>>)
TextNotStr == Body(TRUE, TRUE, 1, TRUE, 1, TRUE, FALSE, <<>>)
TextBody(t) == Body(TRUE, TRUE, 1, TRUE, 1, TRUE, TRUE, t)

\* what one requests.post call comes to
Timeout == [kind |-> "timeout", status |-> 0, body |-> NotJson]
ConnectionError == [kind |-> "connection", status |-> 0, body |-> NotJson]
Response(status, body) == [kind |-> "response", status |-> status, body |-> body]

\* requests.post raises an exception that is no RequestException
OtherException == [kind |-> "exception", status |-> 0, body |-> NotJson]

NoResponse == [kind |-> "none", status |-> 0, body |-> NotJson]
NoResult == [raised |-> FALSE, id |-> 0 - 1, lines |-> <<>>]

(***************************************************************************)
(* translate_chunk.                                                        *)
(***************************************************************************)
\* a variant that puts the first text on every line
prefixed_first_text(marker, texts) == [i \in 1..Len(texts) |-> marker \o texts[1]]

\* [f"[ERROR] {t}" for t in texts] and its siblings
prefixed(marker, texts) == [i \in 1..Len(texts) |-> marker \o texts[i]]

\* a variant that raises for 429 and the server errors only
raise_for_status_server_only(status) ==
    status = 429 \/ (500 <= status /\ status < 600)

\* Response.raise_for_status(): raises HTTPError for a 4xx or 5xx status
raise_for_status(status) == 400 <= status /\ status < 600

\* lines 62-65: whether the attempt raises a RequestException
attempt_raises(o) ==
    \/ o.kind \in {"timeout", "connection"}
    \/ (o.status \in {429, 500, 502, 503, 504} /\ raise_for_status(o.status))
    \/ raise_for_status(o.status)

\* line 67: the except clause of the retry loop names RequestException only;
\* any other exception leaves translate_chunk
uncaught(o) == o.kind = "exception"

\* a variant that is off by one
last_attempt_off_by_one(attempt) == attempt = max_retries

\* line 68: no attempt is left after this one (attempt is 0-based)
last_attempt(attempt) == attempt = max_retries - 1

\* a variant with a linear delay
backoff_linear(attempt) == base_delay * (attempt + 1)

\* line 71: the delay after failed attempt number attempt (0-based)
backoff_delay(attempt) == base_delay * Pow2(attempt)

\* a variant that keeps the empty lines
translated_lines_keep_blank(lines) ==
    [j \in 1..Len(lines) |-> re_sub_index_marker(strip(lines[j]))]

\* lines 83-90: strip each line, drop the empty ones, remove the index marker
RECURSIVE translated_lines_of(_)
translated_lines_of(lines) ==
    IF lines = <<>> THEN <<>>
    ELSE LET line == strip(Head(lines))
         IN  IF line = <<>> THEN translated_lines_of(Tail(lines))
             ELSE <<re_sub_index_marker(line)>> \o translated_lines_of(Tail(lines))

\* a variant that pads and never truncates
pad_only(translated_lines, count) ==
    IF Len(translated_lines) < count
    THEN translated_lines \o [i \in 1..(count - Len(translated_lines)) |-> <<>>]
    ELSE translated_lines

\* lines 93-96: pad or truncate to match input count
pad_or_truncate(translated_lines, count) ==
    IF Len(translated_lines) < count
    THEN translated_lines \o [i \in 1..(count - Len(translated_lines)) |-> <<>>]
    ELSE IF Len(translated_lines) > count
    THEN SubSeq(translated_lines, 1, count)
    ELSE translated_lines

\* a variant that logs and re-raises
parse_exception_reraised(chunk_id, texts) ==
    [raised |-> TRUE, id |-> chunk_id, lines |-> <<>>]

\* lines 100-102: the except clause around the response handling
parse_exception(chunk_id, texts) ==
    [raised |-> FALSE, id |-> chunk_id, lines |-> prefixed(PARSE_ERROR_MARKER, texts)]

\* lines 67-70: the return after the last failed attempt
retries_exhausted(chunk_id, texts) ==
    [raised |-> FALSE, id |-> chunk_id, lines |-> prefixed(ERROR_MARKER, texts)]

\* a variant whose except clause catches only the JSON decoding error
handle_response_narrow_except(chunk_id, texts, body) ==
    IF ~body.is_json
    THEN parse_exception(chunk_id, texts)
    ELSE IF ~body.has_candidates \/ body.candidates_len = 0
    THEN [raised |-> FALSE, id |-> chunk_id,
          lines |-> prefixed(API_ERROR_MARKER, texts)]
    ELSE IF ~body.has_content_parts \/ body.parts_len = 0
            \/ (body.has_text /\ ~body.text_is_str)
    THEN [raised |-> TRUE, id |-> chunk_id, lines |-> <<>>]
    ELSE [raised |-> FALSE, id |-> chunk_id,
          lines |-> pad_or_truncate(
                        translated_lines_of(splitlines(strip(
                            IF body.has_text THEN body.text ELSE <<>>))),
                        Len(texts))]

\* lines 73-102: what translate_chunk returns for a response that passed
\* raise_for_status
handle_response(chunk_id, texts, body) ==
    IF ~body.is_json
    THEN parse_exception(chunk_id, texts)            \* response.json() raises
    ELSE IF ~body.has_candidates \/ body.candidates_len = 0
    THEN [raised |-> FALSE, id |-> chunk_id,
          lines |-> prefixed(API_ERROR_MARKER, texts)]
    ELSE IF ~body.has_content_parts \/ body.parts_len = 0
    THEN parse_exception(chunk_id, texts)            \* KeyError, IndexError
    ELSE IF body.has_text /\ ~body.text_is_str
    THEN parse_exception(chunk_id, texts)            \* .strip() of a non-string
    ELSE LET translated_text == strip(IF body.has_text THEN body.text ELSE <<>>)
             lines == splitlines(translated_text)
         IN  [raised |-> FALSE, id |-> chunk_id,
              lines |-> pad_or_truncate(translated_lines_of(lines), Len(texts))]

(***************************************************************************)
(* prepare_chunks, the result dict and reassemble_subtitles.               *)
(***************************************************************************)
\* lines 116-120: the loop over range(0, total_subs, batch_size), from i on
RECURSIVE chunks_from(_, _, _)
chunks_from(cues, size, i) ==
    IF i >= Len(cues) THEN <<>>
    ELSE LET stop == Min(i + size, Len(cues))    \* the slice subs[i : i + size]
             chunk_texts == [j \in 1..(stop - i) |-> replace_newline(cues[i + j].text)]
         IN  <<[id |-> i, texts |-> chunk_texts]>> \o chunks_from(cues, size, i + size)

\* a variant that tags each chunk with its number in the list
prepare_chunks_numbered(cues, size) ==
    LET cs == chunks_from(cues, size, 0)
    IN  [k \in 1..Len(cs) |-> [id |-> k - 1, texts |-> cs[k].texts]]

\* a variant whose loop stops before a last, shorter chunk
prepare_full_chunks(cues, size) ==
    chunks_from(SubSeq(cues, 1, (Len(cues) \div size) * size), size, 0)

prepare_chunks(cues, size) == chunks_from(cues, size, 0)

\* a Python dict: its entries in insertion order
DictKeys(map) == {map[i].key : i \in 1..Len(map)}

DictGet(map, k) == map[CHOOSE i \in 1..Len(map) : map[i].key = k].lines

\* map[k] = v: an existing key keeps its place, a new one goes last
DictSet(map, k, v) ==
    IF k \in DictKeys(map)
    THEN [i \in 1..Len(map) |-> IF map[i].key = k THEN [key |-> k, lines |-> v]
                                ELSE map[i]]
    ELSE Append(map, [key |-> k, lines |-> v])

\* sorted(S) for a set of integers
RECURSIVE sorted(_)
sorted(S) ==
    IF S = {} THEN <<>>
    ELSE LET m == CHOOSE x \in S : \A y \in S : x <= y
         IN  <<m>> \o sorted(S \ {m})

\* lines 150-152: the lines of the map's entries, one list after the other,
\* for the keys in the order given
RECURSIVE extend_all(_, _)
extend_all(map, keys) ==
    IF keys = <<>> THEN <<>>
    ELSE DictGet(map, Head(keys)) \o extend_all(map, Tail(keys))

\* a variant that takes the entries in insertion order, without sorted()
final_translations_unsorted(map) ==
    extend_all(map, [i \in 1..Len(map) |-> map[i].key])

final_translations_of(map) == extend_all(map, sorted(DictKeys(map)))

\* a variant that builds the list anew from the cues that got a translation
reassemble_translated_only(cues, map) ==
    LET final_translations == final_translations_of(map)
    IN  [i \in 1..Min(Len(cues), Len(final_translations)) |->
            [cues[i] EXCEPT !.text = final_translations[i]]]

\* lines 154-156
reassemble_subtitles(cues, map) ==
    LET final_translations == final_translations_of(map)
    IN  [i \in 1..Len(cues) |->
            IF i - 1 < Len(final_translations)
            THEN [cues[i] EXCEPT !.text = final_translations[i]]
            ELSE cues[i]]

(***************************************************************************)
(* The futures of the thread pool.                                         *)
(***************************************************************************)
NewTask(st) ==
    [st |-> st, attempt |-> 0, response |-> NoResponse, result |-> NoResult,
     yielded |-> FALSE]

Tasks == 1..Len(task)

\* a task that holds a worker thread: in a request or in a retry sleep
Busy(i) == task[i].st \in {"running", "sleeping"}

\* a future that is done: its call returned or raised
Finished(i) == task[i].st \in {"returned", "raised"}

\* what the network may answer to one request of a translate_srt run
PipelineOutcomes ==
    {Timeout, Response(429, NotJson), Response(400, NotJson),
     Response(200, NotJson), Response(200, NoCandidates),
     Response(200, TextBody(<<"x">>)),
     Response(200, TextBody(<<"x", NL, "y">>)),
     Response(200, TextBody(<<"x", NL, "y", NL, "z">>))}

(***************************************************************************)
(* One translate_chunk call, as a worker thread runs it.                   *)
(*                                                                         *)
(* requests and sleeps are history variables: what test doubles of         *)
(* requests.post and time.sleep record when translate_chunk is called      *)
(* directly. A translate_srt run uses the real ones, which record nothing. *)
(* The loop counter of a call that has ended is gone with its frame.       *)
(***************************************************************************)
Recording == pc = "translate_chunk"

\* a variant of translate_chunk that checks the API key before the empty input
StartTask_key_first(i) ==
    /\ task[i].st = "queued"
    /\ \A j \in 1..(i - 1) : task[j].st # "queued"
    /\ Cardinality({j \in Tasks : Busy(j)}) < workers
    /\ task' = [task EXCEPT ![i] =
            IF api_key = ""
            THEN [@ EXCEPT !.st = "raised",
                           !.result = [raised |-> TRUE, id |-> chunks[i].id,
                                       lines |-> <<>>]]
            ELSE IF chunks[i].texts = <<>>
            THEN [@ EXCEPT !.st = "returned",
                           !.result = [raised |-> FALSE, id |-> chunks[i].id,
                                       lines |-> <<>>]]
            ELSE [@ EXCEPT !.st = "running"]]
    /\ UNCHANGED <<run_vars, api_key, input, batch_size, workers, pc, subs, chunks,
                   requests, sleeps, translated_map, pbar, output>>

\* a variant of a pool that starts a thread for every queued call
StartTask_unbounded(i) ==
    /\ task[i].st = "queued"
    /\ \A j \in 1..(i - 1) : task[j].st # "queued"
    /\ task' = [task EXCEPT ![i] =
            IF chunks[i].texts = <<>>
            THEN [@ EXCEPT !.st = "returned",
                           !.result = [raised |-> FALSE, id |-> chunks[i].id,
                                       lines |-> <<>>]]
            ELSE IF api_key = ""
            THEN [@ EXCEPT !.st = "raised",
                           !.result = [raised |-> TRUE, id |-> chunks[i].id,
                                       lines |-> <<>>]]
            ELSE [@ EXCEPT !.st = "running"]]
    /\ UNCHANGED <<run_vars, api_key, input, batch_size, workers, pc, subs, chunks,
                   requests, sleeps, translated_map, pbar, output>>

\* A worker takes the oldest queued call and runs lines 30-58: the empty-input
\* return, the api_key check, the prompt.
StartTask(i) ==
    /\ task[i].st = "queued"
    /\ \A j \in 1..(i - 1) : task[j].st # "queued"
    /\ Cardinality({j \in Tasks : Busy(j)}) < workers
    /\ task' = [task EXCEPT ![i] =
            IF chunks[i].texts = <<>>
            THEN [@ EXCEPT !.st = "returned",
                           !.result = [raised |-> FALSE, id |-> chunks[i].id,
                                       lines |-> <<>>]]
            ELSE IF api_key = ""
            THEN [@ EXCEPT !.st = "raised",
                           !.result = [raised |-> TRUE, id |-> chunks[i].id,
                                       lines |-> <<>>]]
            ELSE [@ EXCEPT !.st = "running"]]
    /\ UNCHANGED <<run_vars, api_key, input, batch_size, workers, pc, subs, chunks,
                   requests, sleeps, translated_map, pbar, output>>

\* lines 60-102: one pass of the retry loop, and on a response that passes
\* raise_for_status the handling of it
Attempt(i, outcomes) ==
    /\ task[i].st = "running"
    /\ \E o \in outcomes :
        /\ requests' = IF Recording
                       THEN [requests EXCEPT ![i] =
                                Append(@, IF uncaught(o) THEN "raised"
                                          ELSE IF attempt_raises(o) THEN "failed"
                                          ELSE "ok")]
                       ELSE requests
        /\ IF uncaught(o)
           THEN /\ task' = [task EXCEPT ![i] =
                       [@ EXCEPT !.st = "raised",
                                 !.attempt = 0,
                                 !.result = [raised |-> TRUE, id |-> chunks[i].id,
                                             lines |-> <<>>]]]
                /\ sleeps' = sleeps
           ELSE IF attempt_raises(o)
           THEN IF last_attempt(task[i].attempt)
                THEN /\ task' = [task EXCEPT ![i] =
                            [@ EXCEPT !.st = "returned",
                                      !.attempt = 0,
                                      !.result = retries_exhausted(chunks[i].id,
                                                                   chunks[i].texts)]]
                     /\ sleeps' = sleeps
                ELSE /\ task' = [task EXCEPT ![i] = [@ EXCEPT !.st = "sleeping"]]
                     /\ sleeps' = IF Recording
                                  THEN [sleeps EXCEPT ![i] =
                                            Append(@, backoff_delay(task[i].attempt))]
                                  ELSE sleeps
           ELSE LET r == handle_response(chunks[i].id, chunks[i].texts, o.body)
                IN  /\ task' = [task EXCEPT ![i] =
                            [@ EXCEPT !.st = IF r.raised THEN "raised" ELSE "returned",
                                      !.attempt = 0,
                                      !.response = o,
                                      !.result = r]]
                    /\ sleeps' = sleeps
    /\ UNCHANGED <<run_vars, api_key, input, batch_size, workers, pc, subs, chunks,
                   translated_map, pbar, output>>

\* time.sleep returns: the loop goes to its next attempt
Wake(i) ==
    /\ task[i].st = "sleeping"
    /\ task' = [task EXCEPT ![i] = [@ EXCEPT !.st = "running", !.attempt = @ + 1]]
    /\ UNCHANGED <<run_vars, api_key, input, batch_size, workers, pc, subs, chunks,
                   requests, sleeps, translated_map, pbar, output>>

(***************************************************************************)
(* translate_srt, as the calling thread runs it.                           *)
(***************************************************************************)
\* line 169: load_subtitles, which raises RuntimeError for an unreadable file
LoadSubtitles ==
    /\ pc = "translate_srt"
    /\ IF input.readable
       THEN subs' = input.cues /\ pc' = "loaded"
       ELSE subs' = subs /\ pc' = "failed"
    /\ UNCHANGED <<run_vars, api_key, input, batch_size, workers, chunks, task, requests,
                   sleeps, translated_map, pbar, output>>

\* a variant that asks for the API key before it looks at the store
SaveEmpty_needs_key ==
    /\ pc = "loaded"
    /\ Len(subs) = 0
    /\ IF api_key = ""
       THEN output' = output /\ pc' = "failed"
       ELSE output' = Append(output, subs) /\ pc' = "done"
    /\ UNCHANGED <<run_vars, api_key, input, batch_size, workers, subs, chunks, task,
                   requests, sleeps, translated_map, pbar>>

\* lines 171-174: nothing to translate
SaveEmpty ==
    /\ pc = "loaded"
    /\ Len(subs) = 0
    /\ output' = Append(output, subs)
    /\ pc' = "done"
    /\ UNCHANGED <<run_vars, api_key, input, batch_size, workers, subs, chunks, task,
                   requests, sleeps, translated_map, pbar>>

\* line 176, and lines 127-129: the chunks, an empty map, a pool with no call yet
PrepareChunks ==
    /\ pc = "loaded"
    /\ Len(subs) # 0
    /\ chunks' = prepare_chunks(subs, batch_size)
    /\ task' = [i \in 1..Len(chunks') |-> NewTask("unsubmitted")]
    /\ requests' = [i \in 1..Len(chunks') |-> <<>>]
    /\ sleeps' = [i \in 1..Len(chunks') |-> <<>>]
    /\ translated_map' = <<>>
    /\ pbar' = 0
    /\ pc' = "submit"
    /\ UNCHANGED <<run_vars, api_key, input, batch_size, workers, subs, output>>

\* lines 130-135: executor.submit of the next chunk, in list order
Submit(i) ==
    /\ pc = "submit"
    /\ task[i].st = "unsubmitted"
    /\ \A j \in 1..(i - 1) : task[j].st # "unsubmitted"
    /\ task' = [task EXCEPT ![i] = [@ EXCEPT !.st = "queued"]]
    /\ pc' = IF i = Len(chunks) THEN "as_completed" ELSE "submit"
    /\ UNCHANGED <<run_vars, api_key, input, batch_size, workers, subs, chunks, requests,
                   sleeps, translated_map, pbar, output>>

\* a variant that keys the map by the number of results collected so far
Collect_keyed_by_count(i) ==
    /\ pc = "as_completed"
    /\ Finished(i)
    /\ ~task[i].yielded
    /\ task' = [task EXCEPT ![i] = [@ EXCEPT !.yielded = TRUE]]
    /\ IF task[i].st = "raised"
       THEN /\ pc' = "shutdown"
            /\ UNCHANGED <<translated_map, pbar>>
       ELSE /\ translated_map' = DictSet(translated_map, Len(translated_map),
                                         task[i].result.lines)
            /\ pbar' = pbar + 1
            /\ pc' = pc
    /\ UNCHANGED <<run_vars, api_key, input, batch_size, workers, subs, chunks, requests,
                   sleeps, output>>

\* a variant that advances the progress bar by the lines of the result
Collect_progress_by_lines(i) ==
    /\ pc = "as_completed"
    /\ Finished(i)
    /\ ~task[i].yielded
    /\ task' = [task EXCEPT ![i] = [@ EXCEPT !.yielded = TRUE]]
    /\ IF task[i].st = "raised"
       THEN /\ pc' = "shutdown"
            /\ UNCHANGED <<translated_map, pbar>>
       ELSE /\ translated_map' = DictSet(translated_map, task[i].result.id,
                                         task[i].result.lines)
            /\ pbar' = pbar + Len(task[i].result.lines)
            /\ pc' = pc
    /\ UNCHANGED <<run_vars, api_key, input, batch_size, workers, subs, chunks, requests,
                   sleeps, output>>

\* a variant that writes each result into the store as it arrives
Collect_writes_store(i) ==
    /\ pc = "as_completed"
    /\ Finished(i)
    /\ ~task[i].yielded
    /\ task' = [task EXCEPT ![i] = [@ EXCEPT !.yielded = TRUE]]
    /\ IF task[i].st = "raised"
       THEN /\ pc' = "shutdown"
            /\ UNCHANGED <<translated_map, pbar, subs>>
       ELSE /\ translated_map' = DictSet(translated_map, task[i].result.id,
                                         task[i].result.lines)
            /\ subs' = [p \in 1..Len(subs) |->
                            LET k == p - task[i].result.id
                            IN  IF 1 <= k /\ k <= Len(task[i].result.lines)
                                THEN [subs[p] EXCEPT !.text = task[i].result.lines[k]]
                                ELSE subs[p]]
            /\ pbar' = pbar + 1
            /\ pc' = pc
    /\ UNCHANGED <<run_vars, api_key, input, batch_size, workers, chunks, requests,
                   sleeps, output>>

\* lines 138-141: as_completed yields a finished future; future.result()
\* returns its result or re-raises its exception
Collect(i) ==
    /\ pc = "as_completed"
    /\ Finished(i)
    /\ ~task[i].yielded
    /\ task' = [task EXCEPT ![i] = [@ EXCEPT !.yielded = TRUE]]
    /\ IF task[i].st = "raised"
       THEN /\ pc' = "shutdown"
            /\ UNCHANGED <<translated_map, pbar>>
       ELSE /\ translated_map' = DictSet(translated_map, task[i].result.id,
                                         task[i].result.lines)
            /\ pbar' = pbar + 1
            /\ pc' = pc
    /\ UNCHANGED <<run_vars, api_key, input, batch_size, workers, subs, chunks, requests,
                   sleeps, output>>

\* lines 141-143: every future was yielded; the with blocks are left and the
\* map is returned
ReturnMap ==
    /\ pc = "as_completed"
    /\ \A i \in Tasks : task[i].yielded
    /\ pc' = "reassemble"
    /\ UNCHANGED <<run_vars, api_key, input, batch_size, workers, subs, chunks, task,
                   requests, sleeps, translated_map, pbar, output>>

\* a variant that saves the store on the way out of a failed run
Propagate_saves ==
    /\ pc = "shutdown"
    /\ \A i \in Tasks : Finished(i)
    /\ output' = Append(output, subs)
    /\ pc' = "failed"
    /\ UNCHANGED <<run_vars, api_key, input, batch_size, workers, subs, chunks, task,
                   requests, sleeps, translated_map, pbar>>

\* a variant whose pool is shut down without waiting (shutdown(wait=False))
Propagate_no_wait ==
    /\ pc = "shutdown"
    /\ pc' = "failed"
    /\ UNCHANGED <<run_vars, api_key, input, batch_size, workers, subs, chunks, task,
                   requests, sleeps, translated_map, pbar, output>>

\* An exception leaves the with block of the pool: ThreadPoolExecutor.__exit__
\* is shutdown(wait=True), which returns once every submitted call has ended;
\* the exception then leaves translate_srt.
Propagate ==
    /\ pc = "shutdown"
    /\ \A i \in Tasks : Finished(i)
    /\ pc' = "failed"
    /\ UNCHANGED <<run_vars, api_key, input, batch_size, workers, subs, chunks, task,
                   requests, sleeps, translated_map, pbar, output>>

\* line 189
Reassemble ==
    /\ pc = "reassemble"
    /\ subs' = reassemble_subtitles(subs, translated_map)
    /\ pc' = "save"
    /\ UNCHANGED <<run_vars, api_key, input, batch_size, workers, chunks, task, requests,
                   sleeps, translated_map, pbar, output>>

\* lines 191-192
Save ==
    /\ pc = "save"
    /\ output' = Append(output, subs)
    /\ pc' = "done"
    /\ UNCHANGED <<run_vars, api_key, input, batch_size, workers, subs, chunks, task,
                   requests, sleeps, translated_map, pbar>>

(***************************************************************************)
(* A run of translate_srt.                                                 *)
(***************************************************************************)
Inputs(max_segs) ==
    {[readable |-> TRUE, cues |-> SampleFile(n)] : n \in 0..max_segs}
        \cup {[readable |-> FALSE, cues |-> <<>>]}

InitRun(max_segs) ==
    /\ api_key \in {"", "key"}
    /\ input \in Inputs(max_segs)
    /\ batch_size \in 1..MaxBatchSize
    /\ workers \in 1..MaxWorkers
    /\ pc = "translate_srt"
    /\ subs = <<>>
    /\ chunks = <<>>
    /\ task = <<>>
    /\ requests = <<>>
    /\ sleeps = <<>>
    /\ translated_map = <<>>
    /\ pbar = 0
    /\ output = <<>>
    /\ NoPipeline

Init == InitRun(MaxSegs)

Next ==
    \/ LoadSubtitles
    \/ SaveEmpty
    \/ PrepareChunks
    \/ \E i \in Tasks : Submit(i)
    \/ \E i \in Tasks : StartTask(i)
    \/ \E i \in Tasks : Attempt(i, PipelineOutcomes)
    \/ \E i \in Tasks : Wake(i)
    \/ \E i \in Tasks : Collect(i)
    \/ ReturnMap
    \/ Propagate
    \/ Reassemble
    \/ Save

Spec == Init /\ [][Next]_vars

(***************************************************************************)
(* A run of translate_srt in which a call of requests.post may also raise  *)
(* an exception that the retry loop does not catch.                        *)
(***************************************************************************)
NextUncaught ==
    \/ Next
    \/ \E i \in Tasks : Attempt(i, {OtherException})

SpecUncaught == Init /\ [][NextUncaught]_vars

(***************************************************************************)
(* A liveness specification: a started request ends (timeout=60), a sleep  *)
(* ends, the pool runs its queued calls and the calling thread goes on.    *)
(***************************************************************************)
LiveInit == InitRun(MaxLiveSegs)

LiveSpec == LiveInit /\ [][Next]_vars /\ WF_vars(Next)

(***************************************************************************)
(* A direct call of translate_chunk(chunk_id, texts), with test doubles    *)
(* for requests.post and time.sleep.                                       *)
(***************************************************************************)
SeqsUpTo(S, n) == UNION {[1..k -> S] : k \in 0..n}

SrcTexts == {<<"h", "i">>, <<"y", "o">>}

ChunkIds == {0, 30}

\* the lines a response text is made of: plain, blank, with an index marker
SampleLines ==
    {<<"a">>, <<>>, <<" ">>, <<"[", "1", "]", " ", "b">>, <<"2", ".", " ", "c">>,
     <<"[", "3", "]">>}

DirectBodies ==
    {NotJson, NoCandidates, EmptyCandidates, NoContentParts, EmptyParts, NoText,
     TextNotStr}
        \cup {TextBody(join_lines(ls)) : ls \in SeqsUpTo(SampleLines, MaxRespLines)}

DirectOutcomes ==
    {Timeout, ConnectionError}
        \cup {Response(st, NotJson) : st \in {400, 401, 429, 500, 503}}
        \cup {Response(200, b) : b \in DirectBodies}

InitChunk ==
    /\ api_key \in {"", "key"}
    /\ \E id \in ChunkIds, texts \in SeqsUpTo(SrcTexts, MaxTexts) :
            chunks = <<[id |-> id, texts |-> texts]>>
    /\ task = <<NewTask("queued")>>
    /\ requests = << <<>> >>
    /\ sleeps = << <<>> >>
    /\ pc = "translate_chunk"
    /\ workers = 1
    /\ batch_size = 1
    /\ input = [readable |-> TRUE, cues |-> <<>>]
    /\ subs = <<>>
    /\ translated_map = <<>>
    /\ pbar = 0
    /\ output = <<>>
    /\ NoPipeline

NextChunk ==
    \/ \E i \in Tasks : StartTask(i)
    \/ \E i \in Tasks : Attempt(i, DirectOutcomes)
    \/ \E i \in Tasks : Wake(i)

SpecChunk == InitChunk /\ [][NextChunk]_vars

(***************************************************************************)
(* A direct call of prepare_chunks(subs, batch_size).                      *)
(***************************************************************************)
CueTexts == {<<"a">>, <<"b", NL, "c">>, <<NL, "d">>}

CuesOf(texts) ==
    [i \in 1..Len(texts) |-> [index |-> i, start |-> 10 * i, end |-> 10 * i + 5,
                              text |-> texts[i]]]

InitPrepare ==
    /\ pc = "prepare_chunks"
    /\ subs \in {CuesOf(ts) : ts \in SeqsUpTo(CueTexts, MaxCues)}
    /\ batch_size \in 1..MaxBatchSize
    /\ api_key = "key"
    /\ input = [readable |-> TRUE, cues |-> <<>>]
    /\ workers = 1
    /\ chunks = <<>>
    /\ task = <<>>
    /\ requests = <<>>
    /\ sleeps = <<>>
    /\ translated_map = <<>>
    /\ pbar = 0
    /\ output = <<>>
    /\ NoPipeline

CallPrepareChunks ==
    /\ pc = "prepare_chunks"
    /\ chunks' = prepare_chunks(subs, batch_size)
    /\ pc' = "prepared"
    /\ UNCHANGED <<run_vars, api_key, input, batch_size, workers, subs, task, requests,
                   sleeps, translated_map, pbar, output>>

NextPrepare == CallPrepareChunks

SpecPrepare == InitPrepare /\ [][NextPrepare]_vars

(***************************************************************************)
(* Properties.                                                             *)
(***************************************************************************)
StartsWith(line, prefix) ==
    Len(line) >= Len(prefix) /\ SubSeq(line, 1, Len(prefix)) = prefix

HasMarker(line) ==
    \/ StartsWith(line, ERROR_MARKER)
    \/ StartsWith(line, API_ERROR_MARKER)
    \/ StartsWith(line, PARSE_ERROR_MARKER)

\* every line is the marker followed by the source text at its position
AllPrefixed(lines, marker, texts) ==
    /\ Len(lines) = Len(texts)
    /\ \A j \in 1..Len(texts) : lines[j] = marker \o texts[j]

CeilDiv(n, d) == (n + d - 1) \div d

RECURSIVE ConcatTexts(_)
ConcatTexts(cs) == IF cs = <<>> THEN <<>> ELSE Head(cs).texts \o ConcatTexts(Tail(cs))

\* the call of chunk i ended by handling a response that passed raise_for_status
Handled(i) == task[i].response.kind = "response"

\* the call of chunk i returned the [ERROR] lines: every attempt failed
Exhausted(i) ==
    /\ task[i].st = "returned"
    /\ ~Handled(i)
    /\ chunks[i].texts # <<>>

\* the body holds a text that the code splits into lines
HasTextBlock(body) ==
    /\ body.is_json /\ body.has_candidates /\ body.candidates_len > 0
    /\ body.has_content_parts /\ body.parts_len > 0
    /\ body.has_text /\ body.text_is_str

\* the index of the chunk that position p (0-based) of the sequence falls in:
\* the one with the largest start offset <= p
ChunkAt(p) ==
    CHOOSE b \in 1..Len(chunks) :
        /\ chunks[b].id <= p
        /\ \A c \in 1..Len(chunks) : chunks[c].id <= p => chunks[c].id <= chunks[b].id

\* C1: whatever the order in which the batch tasks complete and are collected,
\* after reassemble_subtitles the segment at 0-based position p holds line
\* (p - s) of the result of the batch whose start offset s is the largest
\* offset <= p.
C1_InputOrderKept ==
    pc \in {"save", "done"} =>
        \A i \in 1..Len(subs) :
            LET b == ChunkAt(i - 1)
            IN  subs[i].text = task[b].result.lines[(i - 1) - chunks[b].id + 1]

\* a later batch was collected before an earlier one, with different lines
C1_Witness ==
    /\ pc = "done"
    /\ Len(translated_map) >= 2
    /\ translated_map[1].key > translated_map[2].key
    /\ translated_map[1].lines[1] # translated_map[2].lines[1]

\* C2: every result translate_chunk returns has as many lines as the batch
\* has texts and carries the batch's start offset as its id, on every return
\* path.
C2_ResultShape ==
    \A i \in Tasks :
        task[i].st = "returned" =>
            /\ Len(task[i].result.lines) = Len(chunks[i].texts)
            /\ task[i].result.id = chunks[i].id

\* a response with more lines than the batch has texts was cut down
C2_Witness ==
    \E i \in Tasks :
        /\ task[i].st = "returned"
        /\ Handled(i)
        /\ HasTextBlock(task[i].response.body)
        /\ Len(chunks[i].texts) = 2
        /\ Len(translated_lines_of(splitlines(strip(task[i].response.body.text)))) = 3
        /\ chunks[i].id = 30

\* C3: prepare_chunks on N segments gives ceil(N / batch_size) batches whose
\* texts, one batch after the other, are the N segment texts in order, each
\* with its line breaks turned into spaces.
C3_Partition ==
    pc = "prepared" =>
        /\ Len(chunks) = CeilDiv(Len(subs), batch_size)
        /\ ConcatTexts(chunks) =
                [i \in 1..Len(subs) |->
                    [j \in 1..Len(subs[i].text) |->
                        IF subs[i].text[j] = NL THEN " " ELSE subs[i].text[j]]]

\* three segments in batches of two, the last text holding a line break
C3_Witness ==
    /\ pc = "prepared"
    /\ Len(subs) = 3
    /\ batch_size = 2
    /\ Len(chunks) = 2
    /\ \E j \in 1..Len(subs[3].text) : subs[3].text[j] = NL

\* C4: with an API key and a readable input of N segments, whatever the
\* attempts of the batches come to, translate_srt ends without raising, having
\* saved one output of exactly N segments.
C4_RunCompletes ==
    (api_key # "" /\ input.readable) =>
        <>(/\ pc = "done"
           /\ Len(output) = 1
           /\ Len(output[1]) = Len(input.cues))

\* a run ended with one batch out of retries and another with a malformed body
C4_Witness ==
    /\ pc = "done"
    /\ Len(output) = 1
    /\ Len(output[1]) = 2
    /\ \E i, j \in Tasks :
        /\ StartsWith(task[i].result.lines[1], ERROR_MARKER)
        /\ Handled(j)
        /\ ~task[j].response.body.is_json

\* C5: when the first k attempts fail and attempt k+1 succeeds, there were
\* exactly k+1 requests and k waits, the i-th wait being 2 * 2^(i-1) seconds;
\* the lines of a response that holds a text block carry no error marker and
\* are as many as the texts.
C5_BackoffThenSuccess ==
    \A i \in Tasks :
        (task[i].st = "returned" /\ Handled(i)) =>
            LET k == Len(requests[i]) - 1
            IN  /\ k \in 0..4
                /\ \A a \in 1..k : requests[i][a] = "failed"
                /\ requests[i][k + 1] = "ok"
                /\ Len(sleeps[i]) = k
                /\ \A a \in 1..k : sleeps[i][a] = 2 * Pow2(a - 1)
                /\ HasTextBlock(task[i].response.body) =>
                        /\ Len(task[i].result.lines) = Len(chunks[i].texts)
                        /\ \A j \in 1..Len(task[i].result.lines) :
                                ~HasMarker(task[i].result.lines[j])

\* four failures, then a response of two lines for a batch of two texts
C5_Witness ==
    \E i \in Tasks :
        /\ task[i].st = "returned"
        /\ Handled(i)
        /\ requests[i] = <<"failed", "failed", "failed", "failed", "ok">>
        /\ sleeps[i] = <<2, 4, 8, 16>>
        /\ Len(chunks[i].texts) = 2
        /\ task[i].result.lines = << <<"a">>, <<"b">> >>

\* C6, as amended: when all 5 attempts fail, translate_chunk makes exactly 5
\* requests and never a 6th, does not raise, and returns "[ERROR] " + texts[i]
\* for every i in order; the waits are the four between the attempts, of 2,
\* 4, 8 and 16 seconds, and no wait follows the fifth failure.
C6_ExhaustedRetries ==
    \A i \in Tasks :
        /\ Len(requests[i]) <= 5
        /\ (api_key # "" /\ ~Handled(i)) => task[i].st # "raised"
        /\ Exhausted(i) =>
            /\ requests[i] = <<"failed", "failed", "failed", "failed", "failed">>
            /\ AllPrefixed(task[i].result.lines, ERROR_MARKER, chunks[i].texts)
            /\ sleeps[i] = <<2, 4, 8, 16>>

\* five failures for a batch of two texts
C6_Witness ==
    \E i \in Tasks :
        /\ Exhausted(i)
        /\ chunks[i].texts = << <<"h", "i">>, <<"y", "o">> >>
        /\ task[i].result.lines =
                << ERROR_MARKER \o <<"h", "i">>, ERROR_MARKER \o <<"y", "o">> >>

\* C6, as stated: when all 5 attempts fail, the [ERROR] lines are returned
\* and the waits taken follow the sequence 2, 4, 8, 16, 32 seconds.
C6_Original ==
    \A i \in Tasks :
        Exhausted(i) =>
            /\ AllPrefixed(task[i].result.lines, ERROR_MARKER, chunks[i].texts)
            /\ sleeps[i] = <<2, 4, 8, 16, 32>>

\* the translated-text field of the body is absent or empty
TextFieldAbsentOrEmpty(body) ==
    /\ body.is_json
    /\ \/ ~body.has_candidates
       \/ body.candidates_len = 0
       \/ /\ body.has_content_parts
          /\ body.parts_len > 0
          /\ (~body.has_text \/ (body.text_is_str /\ body.text = <<>>))

\* C7: when a response with a success status has no candidates, an empty
\* candidates array, or an absent or empty candidates[0].content.parts[0].text,
\* translate_chunk returns "[API ERROR] " + texts[i] for every i, and makes no
\* further request.
C7_ApiErrorOnMissingText ==
    \A i \in Tasks :
        (Handled(i) /\ TextFieldAbsentOrEmpty(task[i].response.body)) =>
            /\ task[i].st = "returned"
            /\ AllPrefixed(task[i].result.lines, API_ERROR_MARKER, chunks[i].texts)
            /\ requests[i][Len(requests[i])] = "ok"

\* the lines of a response text as the code reads them: split, stripped
RawLines(body) == splitlines(body.text)

NonBlank(lines) == {j \in 1..Len(lines) : strip(lines[j]) # <<>>}

\* C8: for a batch of count texts and a response text with k non-blank lines,
\* the result is those k lines in order followed by count - k empty strings
\* when k < count, and the first count of them otherwise; blank lines take no
\* position.
C8_PadOrTruncate ==
    \A i \in Tasks :
        (task[i].st = "returned" /\ Handled(i)
            /\ HasTextBlock(task[i].response.body)) =>
            LET count == Len(chunks[i].texts)
                raw == RawLines(task[i].response.body)
                k == Cardinality(NonBlank(raw))
                \* the position in raw of the n-th non-blank line
                nth(n) == CHOOSE j \in NonBlank(raw) :
                            Cardinality({m \in NonBlank(raw) : m <= j}) = n
                lines == task[i].result.lines
            IN  /\ Len(lines) = count
                /\ \A n \in 1..Min(k, count) :
                        lines[n] = re_sub_index_marker(strip(raw[nth(n)]))
                /\ \A n \in (k + 1)..count : lines[n] = <<>>

\* one non-blank line after a blank one, for a batch of two texts
C8_Witness ==
    \E i \in Tasks :
        /\ task[i].st = "returned"
        /\ Handled(i)
        /\ task[i].response.body = TextBody(<<" ", NL, "a">>)
        /\ Len(chunks[i].texts) = 2
        /\ task[i].result.lines = << <<"a">>, <<>> >>

\* reading the body raises: not JSON, no content or parts, no part, or a text
\* that is no string
HandlingRaises(body) ==
    \/ ~body.is_json
    \/ /\ body.has_candidates
       /\ body.candidates_len > 0
       /\ \/ ~body.has_content_parts
          \/ body.parts_len = 0
          \/ (body.has_text /\ ~body.text_is_str)

\* C9: when a step after a successful transport response raises,
\* translate_chunk returns "[PARSE ERROR] " + texts[i] for every i; no
\* exception of the response handling leaves translate_chunk.
C9_ParseErrorCaught ==
    \A i \in Tasks :
        /\ Handled(i) => task[i].st = "returned"
        /\ (Handled(i) /\ HandlingRaises(task[i].response.body)) =>
                AllPrefixed(task[i].result.lines, PARSE_ERROR_MARKER, chunks[i].texts)

\* a body whose candidate holds no content, for a batch of two texts
C9_Witness ==
    \E i \in Tasks :
        /\ task[i].st = "returned"
        /\ Handled(i)
        /\ task[i].response.body = NoContentParts
        /\ Len(chunks[i].texts) = 2
        /\ requests[i] = <<"failed", "ok">>

\* C10: when the API key is absent, the run fails before any batch is handed
\* to the worker pool, and no batch task raises the error itself.
C10_FailFastNoKey ==
    api_key = "" =>
        \A i \in Tasks : task[i].st = "unsubmitted"

(***************************************************************************)
(* The dispatcher: execute_concurrent_translation.                         *)
(***************************************************************************)
\* control has left execute_concurrent_translation, by return or by exception
Left == pc \in {"reassemble", "save", "done", "failed"} /\ task # <<>>

\* C11: when exactly one batch task raised, once control has left
\* execute_concurrent_translation every other batch task has ended and the
\* result of each one that returned is in the result map, under its start
\* offset and unchanged.
C11_SiblingResultsKept ==
    (Left /\ Cardinality({i \in Tasks : task[i].st = "raised"}) = 1) =>
        \A j \in Tasks :
            /\ Finished(j)
            /\ task[j].st = "returned" =>
                  /\ chunks[j].id \in DictKeys(translated_map)
                  /\ DictGet(translated_map, chunks[j].id) = task[j].result.lines

\* C12: execute_concurrent_translation is a complete barrier: whenever control
\* has left it, by return or by a propagating exception, no submitted batch
\* task is unsubmitted, queued, running or sleeping; and it returns only when
\* every future has been yielded.
C12_Barrier ==
    /\ Left => \A i \in Tasks : Finished(i)
    /\ (pc \in {"reassemble", "save", "done"} /\ task # <<>>) =>
            \A i \in Tasks : task[i].yielded

\* an exception is on its way out of the dispatcher while a sibling task still
\* holds a worker thread
C12_Witness ==
    /\ pc = "shutdown"
    /\ \E i \in Tasks : Busy(i)

\* control has returned from execute_concurrent_translation with the map
Returned == pc \in {"reassemble", "save", "done"} /\ task # <<>>

\* the start offsets of the submitted batches
Offsets == {chunks[i].id : i \in 1..Len(chunks)}

\* one step writes the map: the calling thread, in its as_completed loop, adds
\* the result of one future it had not been given before, under a key the map
\* does not hold yet, and leaves the other entries as they are
OneWrite ==
    /\ pc = "as_completed"
    /\ \E i \in Tasks :
        /\ ~task[i].yielded /\ task'[i].yielded
        /\ \A j \in Tasks \ {i} : task'[j] = task[j]
        /\ chunks[i].id \notin DictKeys(translated_map)
        /\ translated_map' = Append(translated_map,
                                    [key |-> chunks[i].id, lines |-> task[i].result.lines])

\* C13: when execute_concurrent_translation returns, the key set of the result
\* map is exactly the set of start offsets of the submitted batches; every
\* write adds one key that was not there (so each key is written exactly once),
\* and it is a step of the calling thread in which no worker moves (so writes
\* are never concurrent).
C13_KeysAreOffsets ==
    /\ [](Returned => /\ DictKeys(translated_map) = Offsets
                      /\ Len(translated_map) = Len(chunks))
    /\ [][translated_map' # translated_map => OneWrite]_vars

\* the map was returned with its keys inserted out of order
C13_Witness ==
    /\ pc = "reassemble"
    /\ Len(translated_map) >= 2
    /\ translated_map[1].key > translated_map[2].key

\* the number of batch tasks that hold a worker thread
Executing == Cardinality({i \in Tasks : Busy(i)})

\* C14: at every moment at most workers batch tasks are executing (in a
\* request or in a retry wait); a queued batch is started only in a step that
\* begins with fewer than workers tasks executing; and every submitted batch
\* is eventually started.
C14_WorkerBound ==
    /\ [](Executing <= workers)
    /\ [][\A i \in Tasks :
            (task[i].st = "queued" /\ task'[i].st # "queued") => Executing < workers]_vars
    /\ \A i \in 1..MaxLiveSegs :
            (i \in Tasks /\ task[i].st = "queued")
                ~> (i \in Tasks /\ task[i].st \notin {"unsubmitted", "queued"})

\* every worker thread is taken and a submitted batch waits in the queue
C14_Witness ==
    /\ Executing = workers
    /\ \E i \in Tasks : task[i].st = "queued"

\* the futures whose result the calling thread has taken
Taken == {i \in Tasks : task[i].yielded /\ task[i].st = "returned"}

\* C15: the progress count is 0 until the first result is collected, goes up
\* by exactly 1 in each step that collects the result of a completed batch,
\* whatever the order of completion, and changes in no other step; it always
\* equals the number of entries of the result map, never exceeds the number of
\* batches, and equals it when the dispatcher returns.
C15_Progress ==
    /\ [](/\ pbar = Len(translated_map)
          /\ pbar = Cardinality(Taken)
          /\ pbar <= Len(chunks)
          /\ pc \in {"translate_srt", "loaded", "submit"} => pbar = 0
          /\ Returned => pbar = Len(chunks))
    /\ [][IF \E i \in Tasks : task[i].st = "returned"
                                /\ ~task[i].yielded /\ task'[i].yielded
          THEN pbar' = pbar + 1
          ELSE pbar' = pbar]_vars

\* a later batch was collected before the first one, which is still at work
C15_Witness ==
    /\ pc = "as_completed"
    /\ pbar = 1
    /\ Len(chunks) >= 2
    /\ Busy(1)
    /\ task[2].yielded

(***************************************************************************)
(* A direct call of reassemble_subtitles(subs, translated_map) with any    *)
(* map, followed by the save of lines 191-192.                             *)
(***************************************************************************)
\* n lines that tell their key and their place
EntryLines(k, n) == [j \in 1..n |-> <<"t", DigitChar(k), DigitChar(j)>>]

MapEntries ==
    {[key |-> k, lines |-> EntryLines(k, n)] : k \in 0..MaxCues, n \in 0..MaxEntryLines}

\* dicts of up to MaxMapLen entries, in any insertion order
ResultMaps ==
    {m \in SeqsUpTo(MapEntries, MaxMapLen) :
        \A i, j \in 1..Len(m) : i # j => m[i].key # m[j].key}

InitReassemble ==
    /\ pc = "reassemble_subtitles"
    /\ subs \in {SampleFile(n) : n \in 0..MaxCues}
    /\ input = [readable |-> TRUE, cues |-> subs]
    /\ translated_map \in ResultMaps
    /\ api_key = "key"
    /\ batch_size = 1
    /\ workers = 1
    /\ chunks = <<>>
    /\ task = <<>>
    /\ requests = <<>>
    /\ sleeps = <<>>
    /\ pbar = 0
    /\ output = <<>>
    /\ NoPipeline

CallReassemble ==
    /\ pc = "reassemble_subtitles"
    /\ subs' = reassemble_subtitles(subs, translated_map)
    /\ pc' = "save"
    /\ UNCHANGED <<run_vars, api_key, input, batch_size, workers, chunks, task, requests,
                   sleeps, translated_map, pbar, output>>

NextReassemble ==
    \/ CallReassemble
    \/ Save

SpecReassemble == InitReassemble /\ [][NextReassemble]_vars

\* two stores with as many cues, and at each position the same index, start
\* and end
SameFrame(a, b) ==
    /\ Len(a) = Len(b)
    /\ \A i \in 1..Len(a) :
        /\ a[i].index = b[i].index
        /\ a[i].start = b[i].start
        /\ a[i].end = b[i].end

\* C16: for any result map, after reassemble_subtitles the store has the same
\* number of segments in the same order, each with its index and its start and
\* end timecodes as before; and so has the file that is saved from it.
C16_OnlyTextChanges ==
    pc \in {"save", "done"} =>
        /\ SameFrame(subs, input.cues)
        /\ \A k \in 1..Len(output) : SameFrame(output[k], input.cues)

\* a saved store in which one text was replaced and a later one was not
C16_Witness ==
    /\ pc = "done"
    /\ \E i, j \in 1..Len(input.cues) :
        /\ i < j
        /\ output[1][i].text # input.cues[i].text
        /\ output[1][j].text = input.cues[j].text

\* the input file loads and holds no segment
EmptyStore == input.readable /\ input.cues = <<>>

\* C17: when the loaded store is empty, translate_srt, with or without an API
\* key, never fails, builds no batch, submits no task, makes no request and
\* collects nothing, and when it has returned it has saved the empty store,
\* once.
C17_EmptyStore ==
    EmptyStore =>
        /\ pc \in {"translate_srt", "loaded", "done"}
        /\ chunks = <<>>
        /\ task = <<>>
        /\ requests = <<>>
        /\ translated_map = <<>>
        /\ subs = <<>>
        /\ output = IF pc = "done" THEN << <<>> >> ELSE <<>>

\* the run on an empty store has returned though no API key is set
C17_Witness ==
    /\ EmptyStore
    /\ api_key = ""
    /\ pc = "done"
    /\ output = << <<>> >>

(***************************************************************************)
(* A direct call of translate_chunk against a server that answers every    *)
(* request with a non-success status.                                      *)
(***************************************************************************)
ErrorStatuses == {400, 401, 403, 404, 429, 500, 503}

StatusOutcomes ==
    {Response(st, b) : st \in ErrorStatuses, b \in {NotJson, TextBody(<<"x">>)}}

NextStatus ==
    \/ \E i \in Tasks : StartTask(i)
    \/ \E i \in Tasks : Attempt(i, StatusOutcomes)
    \/ \E i \in Tasks : Wake(i)

SpecStatus == InitChunk /\ [][NextStatus]_vars

\* the waits after the first n failed attempts
Backoffs(n) == [k \in 1..n |-> backoff_delay(k - 1)]

\* C18: with a key and texts, whatever non-success status (400, 401, 403, 404,
\* 429, 500, 503) answers each request, the request counts as a failed
\* attempt: the call does not end before the 5th request, waits base_delay *
\* 2^attempt before each retry, never raises, and returns the [ERROR] lines
\* after the 5th.
C18_EveryStatusRetried ==
    (api_key # "" /\ chunks[1].texts # <<>>) =>
        /\ \A k \in 1..Len(requests[1]) : requests[1][k] = "failed"
        /\ task[1].st # "raised"
        /\ task[1].st \in {"running", "sleeping"} =>
              /\ Len(requests[1]) < max_retries
              /\ sleeps[1] = Backoffs(Len(requests[1]))
        /\ task[1].st = "returned" =>
              /\ Len(requests[1]) = max_retries
              /\ sleeps[1] = Backoffs(max_retries - 1)
              /\ AllPrefixed(task[1].result.lines, ERROR_MARKER, chunks[1].texts)

\* five requests were answered with a non-success status and the call returned
C18_Witness ==
    /\ api_key # ""
    /\ Len(chunks[1].texts) = 2
    /\ task[1].st = "returned"
    /\ Len(requests[1]) = max_retries

\* the call of chunk i got a response with a text block and returned its lines
Succeeded(i) ==
    /\ task[i].st = "returned"
    /\ Handled(i)
    /\ HasTextBlock(task[i].response.body)

\* C19: when exactly one batch has exhausted its retries and every other batch
\* got a translation, the saved file holds, at each position of the failed
\* batch (its start offset up to start offset + count - 1), the "[ERROR] "
\* marker followed by the source text of that very segment (as batched: line
\* breaks flattened to spaces), and at every other position the line that the
\* position's own batch returned for it, which carries no "[ERROR] " marker.
C19_ErrorOnFailedBatchOnly ==
    (pc = "done" /\ task # <<>>) =>
        \A f \in Tasks :
            (Exhausted(f) /\ \A j \in Tasks \ {f} : Succeeded(j)) =>
                \A p \in 0..(Len(input.cues) - 1) :
                    LET b == ChunkAt(p)
                        text == output[1][p + 1].text
                    IN  /\ b = f <=> /\ chunks[f].id <= p
                                     /\ p < chunks[f].id + Len(chunks[f].texts)
                        /\ IF b = f
                           THEN text = ERROR_MARKER \o replace_newline(input.cues[p + 1].text)
                           ELSE /\ text = task[b].result.lines[p - chunks[b].id + 1]
                                /\ ~StartsWith(text, ERROR_MARKER)

\* the first batch, of two segments, exhausted its retries; the second one was
\* translated, and the file is saved
C19_Witness ==
    /\ pc = "done"
    /\ Len(chunks) = 2
    /\ Len(chunks[1].texts) = 2
    /\ Exhausted(1)
    /\ Succeeded(2)
    /\ StartsWith(output[1][2].text, ERROR_MARKER)
    /\ output[1][3].text = <<"x">>

\* C20: the store is loaded by the first step of translate_srt and from then
\* on changes only in the reassemble_subtitles step of the calling thread,
\* taken after execute_concurrent_translation has returned, when every batch
\* task has ended and has been collected; no step of a worker and no step of
\* the dispatcher changes it.
C20_StoreWrittenAfterBarrier ==
    /\ [][subs' # subs =>
            \/ pc = "translate_srt"
            \/ /\ pc = "reassemble"
               /\ \A i \in Tasks : Finished(i) /\ task[i].yielded]_vars
    /\ []((pc \in {"loaded", "submit", "as_completed", "shutdown", "reassemble"})
            => subs = input.cues)

\* reassemble_subtitles has replaced texts of the store: two batches have ended
C20_Witness ==
    /\ pc = "save"
    /\ Len(chunks) >= 2
    /\ \A i \in 1..Len(subs) : subs[i].text # input.cues[i].text

(***************************************************************************)
(* The life of the store in translate_srt.                                 *)
(***************************************************************************)
\* C21: a run of translate_srt loads the store in its first step and never
\* again; the destination is written at most once, by the last step of the run,
\* and what is written is the store after reassemble_subtitles (or the empty
\* store right after the load); a run that ends with an exception has written
\* nothing.
C21_LoadOnceSaveLast ==
    /\ [](/\ Len(output) <= 1
          /\ pc = "failed" => output = <<>>
          /\ output # <<>> =>
                /\ pc = "done"
                /\ output[1] = subs
                /\ IF task = <<>>
                   THEN subs = <<>> /\ input.cues = <<>>
                   ELSE /\ \A i \in Tasks : task[i].yielded
                        /\ subs = reassemble_subtitles(input.cues, translated_map))
    /\ [][/\ pc = "translate_srt" => pc' \in {"loaded", "failed"}
          /\ pc # "translate_srt" => pc' # "translate_srt"
          /\ output' # output => /\ pc \in {"loaded", "save"}
                                 /\ pc' = "done"
                                 /\ output' = <<subs>>]_vars

\* a run has ended with an exception after a batch had been translated, and
\* nothing was saved
C21_Witness ==
    /\ pc = "failed"
    /\ \E i \in Tasks : Succeeded(i)
    /\ output = <<>>

\* the flat sequence of translated lines that reassemble_subtitles lays out
Flat == final_translations_of(translated_map)

\* the map holds results of a batching of the store with batch size bs, some
\* of them possibly missing: every key is a start offset of that batching and
\* its entry has as many lines as the batch has texts
ResultsOfBatching(bs) ==
    \A e \in 1..Len(translated_map) :
        LET k == translated_map[e].key
        IN  /\ k % bs = 0
            /\ k < Len(input.cues)
            /\ Len(translated_map[e].lines) = Min(bs, Len(input.cues) - k)

\* the line that the map holds for position p (0-based) is text
LineOfPosition(p, text) ==
    \E e \in 1..Len(translated_map) :
        LET j == p - translated_map[e].key + 1
        IN  /\ 1 <= j /\ j <= Len(translated_map[e].lines)
            /\ translated_map[e].lines[j] = text

AfterMarker(line) ==
    LET n == Len(line)
        d == IF n >= 1 /\ line[1] = "[" THEN 2 ELSE 1       \* where k begins
        e == Skip(line, d, Digit)                            \* where k ends
    IN  IF e = d \/ e > n THEN 1
        ELSE IF d = 2 /\ line[e] = "]" THEN e + 1
        ELSE IF d = 1 /\ line[e] = "." THEN e + 1
        ELSE 1

\* the line without its marker "[k]" or "k." and the blanks that follow it; a
\* line with no such marker as it is
WithoutMarker(line) ==
    IF AfterMarker(line) = 1 THEN line
    ELSE lstrip(SubSeq(line, AfterMarker(line), Len(line)))

\* C23: for a response text, the n-th line of the result is the n-th non-blank
\* line of the text, stripped of surrounding whitespace, with a leading marker
\* "[k]" or "k." removed whole when it has one, and unchanged when it has none.
C23_IndexMarkerRemoved ==
    \A i \in Tasks :
        (task[i].st = "returned" /\ Handled(i)
            /\ HasTextBlock(task[i].response.body)) =>
            LET raw == RawLines(task[i].response.body)
                k == Cardinality(NonBlank(raw))
                nth(n) == CHOOSE j \in NonBlank(raw) :
                            Cardinality({m \in NonBlank(raw) : m <= j}) = n
            IN  \A n \in 1..Min(k, Len(chunks[i].texts)) :
                    task[i].result.lines[n] = WithoutMarker(strip(raw[nth(n)]))

(***************************************************************************)
(* Empty batches: a direct call of translate_chunk or of prepare_chunks.   *)
(***************************************************************************)
InitEither == InitChunk \/ InitPrepare

NextEither ==
    \/ NextChunk
    \/ NextPrepare

SpecEither == InitEither /\ [][NextEither]_vars

\* C24: a call of translate_chunk with no texts never makes a request and
\* never waits, with or without an API key, and ends by returning the given id
\* with an empty list of lines; and no batch that prepare_chunks produces is
\* empty.
C24_EmptyBatch ==
    /\ (pc = "translate_chunk" /\ chunks[1].texts = <<>>) =>
            /\ task[1].st \in {"queued", "returned"}
            /\ requests[1] = <<>>
            /\ sleeps[1] = <<>>
            /\ task[1].st = "returned" =>
                    task[1].result = [raised |-> FALSE, id |-> chunks[1].id,
                                      lines |-> <<>>]
    /\ pc = "prepared" =>
            \A b \in 1..Len(chunks) : chunks[b].texts # <<>>

\* the call with no texts and no API key has returned
C24_Witness ==
    /\ pc = "translate_chunk"
    /\ chunks[1].texts = <<>>
    /\ chunks[1].id = 30
    /\ api_key = ""
    /\ task[1].st = "returned"
    /\ task[1].result.id = 30

(***************************************************************************)
(* The batches of a run and their one call each.                           *)
(***************************************************************************)
\* C25: in a run of translate_srt the k-th batch (k = 0, 1, ...) has the start
\* offset k * batch_size and holds the texts of the segments from that
\* position on; every batch but the last holds batch_size texts and the last
\* between 1 and batch_size; the start offsets are pairwise distinct; and each
\* batch has one call of translate_chunk, which is submitted once, started
\* once and, once ended, keeps its result; when the dispatcher returns every
\* call has ended.
C25_OffsetsAndSingleSubmit ==
    /\ [](/\ Len(task) = Len(chunks)
          /\ \A k \in 1..Len(chunks) :
                /\ chunks[k].id = (k - 1) * batch_size
                /\ \A j \in 1..Len(chunks[k].texts) :
                        chunks[k].texts[j] =
                            replace_newline(input.cues[chunks[k].id + j].text)
                /\ k < Len(chunks) => Len(chunks[k].texts) = batch_size
                /\ k = Len(chunks) => /\ 1 <= Len(chunks[k].texts)
                                      /\ Len(chunks[k].texts) <= batch_size
                /\ \A m \in 1..Len(chunks) : m # k => chunks[m].id # chunks[k].id
          /\ Returned => \A i \in Tasks : Finished(i))
    /\ [][\A i \in Tasks :
            /\ task[i].st # "unsubmitted" => task'[i].st # "unsubmitted"
            /\ task[i].st \notin {"unsubmitted", "queued"} => task'[i].st # "queued"
            /\ Finished(i) => /\ task'[i].st = task[i].st
                              /\ task'[i].result = task[i].result]_vars

\* a run with a full batch and a shorter last one, both submitted and ended
C25_Witness ==
    /\ pc = "reassemble"
    /\ batch_size = 2
    /\ Len(chunks) = 2
    /\ chunks[2].id = 2
    /\ Len(chunks[2].texts) = 1

(***************************************************************************)
(* run.py: main gives each file to process_video, which extracts the       *)
(* audio, transcribes it, cleans the subtitles and calls translate_srt     *)
(* (the actions above) with batch_size=30 and workers=10.                  *)
(***************************************************************************)
Files == 1..Len(final_srt)

StepNames == <<"extract", "transcribe", "clean", "translate">>

\* a step of process_video raised an exception, which line 118 catches
Raised(name) ==
    /\ steps_run' = [steps_run EXCEPT ![file_i] = Append(@, name)]
    /\ caught' = [caught EXCEPT ![file_i] = name]
    /\ step' = "finally"

\* the variables of translate.py outside a call of translate_srt
NoTranslation ==
    /\ pc' = "idle"
    /\ input' = [readable |-> FALSE, cues |-> <<>>]
    /\ subs' = <<>>
    /\ chunks' = <<>>
    /\ task' = <<>>
    /\ requests' = <<>>
    /\ sleeps' = <<>>
    /\ translated_map' = <<>>
    /\ pbar' = 0
    /\ output' = <<>>

\* lines 45-70: the skip of a file whose final subtitle exists, else the
\* temporary directory
ProcessVideo ==
    /\ file_i \in Files
    /\ step = "call"
    /\ IF final_srt[file_i] # "absent"
       THEN /\ file_i' = file_i + 1
            /\ UNCHANGED <<temp_dir, step>>
       ELSE /\ temp_dir' = [temp_dir EXCEPT ![file_i] =
                                IF keep_temp THEN "workspace" ELSE "created"]
            /\ step' = "extract"
            /\ file_i' = file_i
    /\ UNCHANGED <<keep_temp, final_srt, steps_run, caught, api_key, input,
                   batch_size, workers, pc, subs, chunks, task, requests, sleeps,
                   translated_map, pbar, output>>

\* lines 76-82: AudioExtractor().extract, which may raise
ExtractAudio ==
    /\ step = "extract"
    /\ \/ /\ steps_run' = [steps_run EXCEPT ![file_i] = Append(@, "extract")]
          /\ step' = "transcribe"
          /\ caught' = caught
       \/ Raised("extract")
    /\ UNCHANGED <<keep_temp, final_srt, temp_dir, file_i, api_key, input,
                   batch_size, workers, pc, subs, chunks, task, requests, sleeps,
                   translated_map, pbar, output>>

\* lines 87-92: Transcriber(...).transcribe, which may raise
Transcribe ==
    /\ step = "transcribe"
    /\ \/ /\ steps_run' = [steps_run EXCEPT ![file_i] = Append(@, "transcribe")]
          /\ step' = "clean"
          /\ caught' = caught
       \/ Raised("transcribe")
    /\ UNCHANGED <<keep_temp, final_srt, temp_dir, file_i, api_key, input,
                   batch_size, workers, pc, subs, chunks, task, requests, sleeps,
                   translated_map, pbar, output>>

\* lines 97-101: clean_srt writes the cleaned file, or returns without writing
\* it when it cannot load the raw one, or raises
CleanSrt ==
    /\ step = "clean"
    /\ \/ /\ steps_run' = [steps_run EXCEPT ![file_i] = Append(@, "clean")]
          /\ step' = "translate"
          /\ caught' = caught
          /\ input' \in Inputs(MaxPipeSegs)
       \/ Raised("clean") /\ input' = input
    /\ UNCHANGED <<keep_temp, final_srt, temp_dir, file_i, api_key,
                   batch_size, workers, pc, subs, chunks, task, requests, sleeps,
                   translated_map, pbar, output>>

\* lines 106-112: the call of translate_srt
CallTranslate ==
    /\ step = "translate"
    /\ pc = "idle"
    /\ pc' = "translate_srt"
    /\ steps_run' = [steps_run EXCEPT ![file_i] = Append(@, "translate")]
    /\ UNCHANGED <<keep_temp, final_srt, temp_dir, caught, file_i, step, api_key,
                   input, batch_size, workers, subs, chunks, task, requests,
                   sleeps, translated_map, pbar, output>>

\* what a call of translate_srt has made of final_srt_path
AfterTranslate ==
    [final_srt EXCEPT ![file_i] =
        IF output = <<>> THEN @
        ELSE IF @ = "absent" THEN "written" ELSE "overwritten"]

\* lines 114-116: translate_srt returned
TranslateReturned ==
    /\ step = "translate"
    /\ pc = "done"
    /\ final_srt' = AfterTranslate
    /\ step' = "finally"
    /\ NoTranslation
    /\ UNCHANGED <<keep_temp, temp_dir, steps_run, caught, file_i, api_key,
                   batch_size, workers>>

\* lines 118-119: translate_srt raised
TranslateRaised ==
    /\ step = "translate"
    /\ pc = "failed"
    /\ final_srt' = AfterTranslate
    /\ caught' = [caught EXCEPT ![file_i] = "translate"]
    /\ step' = "finally"
    /\ NoTranslation
    /\ UNCHANGED <<keep_temp, temp_dir, steps_run, file_i, api_key,
                   batch_size, workers>>

\* a variant that cleans up at the end of the try block only
Finally_cleanup_on_success ==
    /\ step = "finally"
    /\ temp_dir' = [temp_dir EXCEPT ![file_i] =
                        IF @ = "created" /\ caught[file_i] = "none"
                        THEN "cleaned" ELSE @]
    /\ file_i' = file_i + 1
    /\ step' = "call"
    /\ UNCHANGED <<keep_temp, final_srt, steps_run, caught, api_key, input,
                   batch_size, workers, pc, subs, chunks, task, requests, sleeps,
                   translated_map, pbar, output>>

\* lines 120-123: the finally clause; process_video returns and the loop of
\* main (lines 190-202) goes to the next file
Finally ==
    /\ step = "finally"
    /\ temp_dir' = [temp_dir EXCEPT ![file_i] =
                        IF @ = "created" THEN "cleaned" ELSE @]
    /\ file_i' = file_i + 1
    /\ step' = "call"
    /\ UNCHANGED <<keep_temp, final_srt, steps_run, caught, api_key, input,
                   batch_size, workers, pc, subs, chunks, task, requests, sleeps,
                   translated_map, pbar, output>>

InitPipeline ==
    /\ api_key \in {"", "key"}
    /\ keep_temp \in BOOLEAN
    /\ final_srt \in SeqsUpTo({"absent", "existing"}, MaxFiles) \ {<<>>}
    /\ temp_dir = [f \in 1..Len(final_srt) |-> "none"]
    /\ steps_run = [f \in 1..Len(final_srt) |-> <<>>]
    /\ caught = [f \in 1..Len(final_srt) |-> "none"]
    /\ file_i = 1
    /\ step = "call"
    /\ batch_size = 30
    /\ workers = 10
    /\ pc = "idle"
    /\ input = [readable |-> FALSE, cues |-> <<>>]
    /\ subs = <<>>
    /\ chunks = <<>>
    /\ task = <<>>
    /\ requests = <<>>
    /\ sleeps = <<>>
    /\ translated_map = <<>>
    /\ pbar = 0
    /\ output = <<>>

NextPipeline ==
    \/ ProcessVideo
    \/ ExtractAudio
    \/ Transcribe
    \/ CleanSrt
    \/ CallTranslate
    \/ Next
    \/ TranslateReturned
    \/ TranslateRaised
    \/ Finally

SpecPipeline == InitPipeline /\ [][NextPipeline]_vars

\* process_video has returned for file f
Processed(f) == f < file_i

\* C26: main gives the files to process_video one after another and goes on
\* to the last one whatever happens to a file: an exception of a step
\* (extraction, transcription, cleaning, translation, also for a missing API
\* key) is caught in process_video; for a file whose final subtitle exists no
\* step is run, no directory is made and the subtitle is not written; and when
\* process_video has returned for a file, with or without a caught exception,
\* the TemporaryDirectory made for it has been cleaned up.
C26_PipelineIsolation ==
    /\ file_i \in 1..(Len(final_srt) + 1)
    /\ file_i \in Files => ENABLED NextPipeline
    /\ \A f \in Files :
        /\ final_srt[f] # "overwritten"
        /\ f > file_i => steps_run[f] = <<>> /\ temp_dir[f] = "none"
        /\ final_srt[f] = "existing" =>
                steps_run[f] = <<>> /\ temp_dir[f] = "none" /\ caught[f] = "none"
        /\ Processed(f) /\ final_srt[f] # "existing" =>
                /\ steps_run[f] # <<>>
                /\ steps_run[f] = SubSeq(StepNames, 1, Len(steps_run[f]))
                /\ temp_dir[f] = IF keep_temp THEN "workspace" ELSE "cleaned"
                /\ IF caught[f] = "none"
                   THEN steps_run[f] = StepNames /\ final_srt[f] = "written"
                   ELSE /\ caught[f] = steps_run[f][Len(steps_run[f])]
                        /\ final_srt[f] = "absent"

\* the translation of the first file failed for the missing API key; the
\* second file was processed to its end, and both directories are cleaned up
C26_Witness ==
    /\ file_i = 3
    /\ api_key = ""
    /\ caught = <<"translate", "none">>
    /\ final_srt = <<"absent", "written">>
    /\ temp_dir = <<"cleaned", "cleaned">>

====
